---- MODULE Spec2Model ----
(***************************************************************************)
(* A model of the directory lister in src/main.rs: main, list_files,       *)
(* file_info, get_mode_str and get_file_type_str.                          *)
(*                                                                         *)
(* A file name is the tuple of its bytes (<<46>> is ".", <<46, 104>> is    *)
(* ".h", <<97>> is "a"), a path is the tuple of its components, and a      *)
(* directory is a map from names to nodes.  The file system does not       *)
(* change during a run, except for the failures a call can meet (Faults).  *)
(***************************************************************************)
EXTENDS Integers, Sequences, FiniteSets, TLC

VARIABLES
    args,       \* struct Args: files, all, directory, long, not_human_readable
    cwd,        \* the nodes the top-level paths name
    dirfs,      \* the nodes of the directories other than the working directory
    pc,         \* "main", "list_files", "entries", "exited"
    i,          \* position of list_files' loop in args.files
    entries,    \* the sorted entries of the directory being expanded
    j,          \* position of the inner loop in entries
    out,        \* the lines printed on standard output
    err,        \* the error list_files returned, NoErr if none
    exit_code,  \* the exit status of the process
    mode_in,    \* get_mode_str's argument
    mode_out    \* get_mode_str's result

vars == <<args, cwd, dirfs, pc, i, entries, j, out, err, exit_code, mode_in, mode_out>>

(***************************************************************************)
(* Bounds and the names of the model                                       *)
(***************************************************************************)
MaxFiles == 2

CurDir == <<46>>

ParentDir == <<46, 46>>

\* the ordinary names a directory can hold: ".h" and "a"
Names == {<<46, 104>>, <<97>>}

\* the paths the command line can name
TopNames == {CurDir, ParentDir} \cup Names

Booleans == {TRUE, FALSE}

\* what a call of file_info can find failing in the file system
Faults == {"none", "symlink_metadata", "modified", "read_link"}

(***************************************************************************)
(* Names and paths                                                         *)
(***************************************************************************)
\* str::starts_with('.')
StartsWithDot(name) == Len(name) > 0 /\ name[1] = 46

RECURSIVE BytesLess(_, _)
\* Ord of OsStr: byte-wise lexicographic
BytesLess(a, b) ==
    IF b = <<>> THEN FALSE
    ELSE IF a = <<>> THEN TRUE
    ELSE IF a[1] # b[1] THEN a[1] < b[1]
    ELSE BytesLess(Tail(a), Tail(b))

\* Ord of path::Component (derived): CurDir < ParentDir < Normal(_)
ComponentRank(c) == IF c = CurDir THEN 0 ELSE IF c = ParentDir THEN 1 ELSE 2

ComponentLess(c, d) ==
    \/ ComponentRank(c) < ComponentRank(d)
    \/ ComponentRank(c) = 2 /\ ComponentRank(d) = 2 /\ BytesLess(c, d)

RECURSIVE PathLess(_, _)
\* Ord of Path: lexicographic over the components
PathLess(p, q) ==
    IF q = <<>> THEN FALSE
    ELSE IF p = <<>> THEN TRUE
    ELSE IF p[1] # q[1] THEN ComponentLess(p[1], q[1])
    ELSE PathLess(Tail(p), Tail(q))

PathLeq(p, q) == p = q \/ PathLess(p, q)

RECURSIVE Insert(_, _)
Insert(p, s) ==
    IF s = <<>> THEN <<p>>
    ELSE IF PathLeq(p, s[1]) THEN <<p>> \o s
    ELSE <<s[1]>> \o Insert(p, Tail(s))

RECURSIVE SortByPath(_)
SortByPath(s) == IF s = <<>> THEN <<>> ELSE Insert(s[1], SortByPath(Tail(s)))

\* the order the caller gave: what a missing sort leaves
KeepOrder(s) == s

\* Vec<PathBuf>::sort_unstable
SortUnstable(s) == SortByPath(s)

(***************************************************************************)
(* The file system                                                         *)
(*                                                                         *)
(* A directory is a map from TopNames to nodes: "." and ".." are           *)
(* directories, an ordinary name is nothing ("none"), a file, a directory  *)
(* or a link, and a link names a target in the directory it is in.  cwd is *)
(* the working directory; dirfs is the content of every other directory    *)
(* (".." and the directories of cwd).                                      *)
(***************************************************************************)
Node(kind, link) == [kind |-> kind, link |-> link]

LinkTargets == {CurDir, <<46, 104>>}

CwdChoices ==
    {f \in [TopNames -> {Node("none", <<>>), Node("file", <<>>), Node("dir", <<>>)}
                            \cup {Node("link", t) : t \in LinkTargets}] :
        f[CurDir].kind = "dir" /\ f[ParentDir].kind = "dir"}

DirChoices ==
    {f \in [TopNames -> {Node("none", <<>>), Node("file", <<>>), Node("dir", <<>>)}] :
        f[CurDir].kind = "dir" /\ f[ParentDir].kind = "dir"}

Last(path) == path[Len(path)]

RECURSIVE Resolve(_, _, _)
\* the name a name resolves to in its directory, following links; <<>> when
\* the chain ends at nothing or does not end
Resolve(map, name, hops) ==
    IF map[name].kind = "none" THEN <<>>
    ELSE IF map[name].kind # "link" THEN name
    ELSE IF hops = 0 THEN <<>>
    ELSE Resolve(map, map[name].link, hops - 1)

\* the kind of node a name resolves to (fs::metadata), "none" on any error
Follow(map, name) ==
    LET end == Resolve(map, name, Cardinality(TopNames))
    IN  IF end = <<>> THEN "none" ELSE map[end].kind

\* the content of the directory a top-level name resolves to
DirMap(name) == IF Resolve(cwd, name, Cardinality(TopNames)) = CurDir THEN cwd ELSE dirfs

\* the directory a path is looked up in: cwd for a top-level path, the
\* expanded directory for one of its entries
MapOf(path) == IF Len(path) = 1 THEN cwd ELSE DirMap(path[1])

\* the node a path names, links not followed
NodeAt(path) == MapOf(path)[Last(path)]

\* fs::metadata in place of fs::symlink_metadata
MetadataFollowing(path) ==
    LET end == Resolve(MapOf(path), Last(path), Cardinality(TopNames))
    IN  IF end = <<>> THEN Node("none", <<>>) ELSE MapOf(path)[end]

\* fs::symlink_metadata: the node itself, never the one a link names
SymlinkMetadata(path) == NodeAt(path)

\* is_dir on the metadata of the path itself
IsDirNoFollow(path) == NodeAt(path).kind = "dir"

\* Path::is_dir follows links and is false on any error
IsDir(path) == Follow(MapOf(path), Last(path)) = "dir"

\* Path::is_symlink
IsSymlink(path) == NodeAt(path).kind = "link"

\* Metadata::len
MetadataLen(md) ==
    CASE md.kind = "dir" -> 4096
      [] md.kind = "link" -> Len(md.link)
      [] OTHER -> 1536

\* Metadata::mode on Linux: the type bits and the permission bits
MetadataMode(md) ==
    CASE md.kind = "dir" -> 16877
      [] md.kind = "link" -> 41471
      [] OTHER -> 33188

(***************************************************************************)
(* Field formatters                                                        *)
(***************************************************************************)
RECURSIVE Digits(_)
\* u64::to_string: the decimal digits, most significant first
Digits(n) == IF n < 10 THEN <<n>> ELSE Digits(n \div 10) \o <<n % 10>>

\* Byte::get_appropriate_unit(true).to_string(): the largest binary unit that
\* keeps the value at 1 or more, two decimals unless the unit is the byte
HumanSize(len) ==
    LET unit == IF len >= 1024 * 1024 THEN "MiB" ELSE IF len >= 1024 THEN "KiB" ELSE "B"
        scale == IF unit = "MiB" THEN 1024 * 1024 ELSE IF unit = "KiB" THEN 1024 ELSE 1
        hundredths == (2 * 100 * len + scale) \div (2 * scale)
    IN  IF unit = "B"
        THEN [whole |-> Digits(len), frac |-> <<>>, unit |-> unit]
        ELSE [whole |-> Digits(hundredths \div 100),
              frac |-> <<(hundredths % 100) \div 10, hundredths % 10>>,
              unit |-> unit]

ExactSize(len) == [whole |-> Digits(len), frac |-> <<>>, unit |-> ""]

\* the size column of the long format
SizeStr(md) ==
    IF args.not_human_readable THEN ExactSize(MetadataLen(md)) ELSE HumanSize(MetadataLen(md))

\* mode & mask > 0, for a mask of one bit
BitSet(mode, mask) == (mode \div mask) % 2 = 1

\* the read bit of "other" tested with the mask of "group" (0o040 for 0o004)
ModeStrWrongMask(mode) ==
    << IF BitSet(mode, 256) THEN "r" ELSE "-",
       IF BitSet(mode, 128) THEN "w" ELSE "-",
       IF BitSet(mode, 64) THEN "x" ELSE "-",
       IF BitSet(mode, 32) THEN "r" ELSE "-",
       IF BitSet(mode, 16) THEN "w" ELSE "-",
       IF BitSet(mode, 8) THEN "x" ELSE "-",
       IF BitSet(mode, 32) THEN "r" ELSE "-",
       IF BitSet(mode, 2) THEN "w" ELSE "-",
       IF BitSet(mode, 1) THEN "x" ELSE "-" >>

\* lines 158-175

get_mode_str(mode) ==
    << IF BitSet(mode, 256) THEN "r" ELSE "-",
       IF BitSet(mode, 128) THEN "w" ELSE "-",
       IF BitSet(mode, 64) THEN "x" ELSE "-",
       IF BitSet(mode, 32) THEN "r" ELSE "-",
       IF BitSet(mode, 16) THEN "w" ELSE "-",
       IF BitSet(mode, 8) THEN "x" ELSE "-",
       IF BitSet(mode, 4) THEN "r" ELSE "-",
       IF BitSet(mode, 2) THEN "w" ELSE "-",
       IF BitSet(mode, 1) THEN "x" ELSE "-" >>

get_file_type_str(md) ==
    IF md.kind = "dir" THEN "d"
    ELSE IF md.kind = "link" THEN "l"
    ELSE "-"

(***************************************************************************)
(* file_info                                                               *)
(***************************************************************************)
NoErr == [kind |-> "none", name |-> <<>>]

Error(kind, name) == [kind |-> kind, name |-> name]

\* the display name: "." and ".." as they are, else the final component
DisplayName(path) ==
    IF path = <<CurDir>> THEN CurDir
    ELSE IF path = <<ParentDir>> THEN ParentDir
    ELSE IF Last(path) \in {CurDir, ParentDir} THEN <<>>
    ELSE Last(path)

\* the filter that shows every entry
HiddenNever(filename) == FALSE

\* the filter without the exemption of "." and ".."
HiddenNoExemption(filename) == ~args.all /\ StartsWithDot(filename)

\* line 100: the entry is skipped
Hidden(filename) ==
    ~args.all /\ filename # CurDir /\ filename # ParentDir /\ StartsWithDot(filename)

\* line 105
Suffix(path) == IF IsDir(path) THEN "/" ELSE ""

\* the arrow and the target, empty for what is no link
TargetFile(path) == IF IsSymlink(path) THEN <<SymlinkMetadata(path).link>> ELSE <<>>

\* A printed line.  idx, node and resolves are not printed: they record the
\* position of the top-level path the line belongs to, the node the file system
\* holds for the path and the kind of node the path resolves to.
Line(kind, idx, path) ==
    [kind |-> kind, idx |-> idx, path |-> path,
     node |-> NodeAt(path),
     resolves |-> Follow(MapOf(path), Last(path)),
     name |-> <<>>, suffix |-> "", file_type |-> "", mode |-> <<>>,
     size |-> ExactSize(0), target_file |-> <<>>]

\* line 64: "<path>:"
HeaderLine(idx, path) == Line("header", idx, path)

\* line 108: "<name><suffix>"
ShortLine(idx, path) ==
    [Line("short", idx, path) EXCEPT !.name = DisplayName(path), !.suffix = Suffix(path)]

\* lines 149-152: type and mode, size, name, suffix, arrow and target.  The link
\* count, the owner, the group and the modification time are columns no
\* property here reads; they are left out of the record.
LongLine(idx, path) ==
    LET metadata == SymlinkMetadata(path)
    IN  [Line("long", idx, path) EXCEPT
            !.name = DisplayName(path),
            !.suffix = Suffix(path),
            !.file_type = get_file_type_str(metadata),
            !.mode = get_mode_str(MetadataMode(metadata)),
            !.size = SizeStr(metadata),
            !.target_file = TargetFile(path)]

Ok(lines) == [err |-> NoErr, lines |-> lines]

Fail(kind, name) == [err |-> Error(kind, name), lines |-> <<>>]

\* file_info with the hidden-file filter ahead of symlink_metadata
FileInfoFilterFirst(idx, path, fault) ==
    LET filename == DisplayName(path)
    IN  IF Hidden(filename) THEN Ok(<<>>)
        ELSE IF SymlinkMetadata(path).kind = "none" \/ fault = "symlink_metadata"
        THEN Fail("NotAccessible", filename)
        ELSE IF ~args.long THEN Ok(<<ShortLine(idx, path)>>)
        ELSE IF fault = "modified" THEN Fail("Modified", filename)
        ELSE IF IsSymlink(path) /\ fault = "read_link" THEN Fail("LinkUnreadable", filename)
        ELSE Ok(<<LongLine(idx, path)>>)

\* file_info(args, path): what it prints and what it returns.  idx is the
\* position of the top-level path the call belongs to; fault is what the file
\* system fails on during the call: symlink_metadata on a node that is there
\* (permission, I/O), the modification time (not readable, or before the
\* epoch), read_link.
file_info(idx, path, fault) ==
    LET filename == DisplayName(path)
    IN  IF SymlinkMetadata(path).kind = "none" \/ fault = "symlink_metadata"
        THEN Fail("NotAccessible", filename)
        ELSE IF Hidden(filename) THEN Ok(<<>>)
        ELSE IF ~args.long THEN Ok(<<ShortLine(idx, path)>>)
        ELSE IF fault = "modified" THEN Fail("Modified", filename)
        ELSE IF IsSymlink(path) /\ fault = "read_link" THEN Fail("LinkUnreadable", filename)
        ELSE Ok(<<LongLine(idx, path)>>)

(***************************************************************************)
(* main and list_files                                                     *)
(***************************************************************************)
RECURSIVE SeqsOver(_)
\* the orders in which a set can be enumerated
SeqsOver(S) ==
    IF S = {} THEN {<<>>}
    ELSE UNION {{<<x>> \o s : s \in SeqsOver(S \ {x})} : x \in S}

FilesChoices == UNION {[1..n -> {<<t>> : t \in TopNames}] : n \in 0..MaxFiles}

\* the state after Args::parse()
Init ==
    /\ args \in [files : FilesChoices, all : Booleans, directory : Booleans,
                 long : Booleans, not_human_readable : Booleans]
    /\ cwd \in CwdChoices
    /\ dirfs \in DirChoices
    /\ pc = "main"
    /\ i = 1
    /\ entries = <<>>
    /\ j = 1
    /\ out = <<>>
    /\ err = NoErr
    /\ exit_code = 0
    /\ mode_in = 0
    /\ mode_out = <<>>

\* lines 46-50: the default path and the sort
Main ==
    /\ pc = "main"
    /\ args' = [args EXCEPT !.files =
                    SortUnstable(IF args.files = <<>> THEN <<<<CurDir>>>> ELSE args.files)]
    /\ pc' = "list_files"
    /\ UNCHANGED <<cwd, dirfs, i, entries, j, out, err, exit_code, mode_in, mode_out>>

\* the error reported and the process left to end normally
ExitNoStatus(e) ==
    /\ err' = e
    /\ exit_code' = 0
    /\ pc' = "exited"

\* lines 52-55: list_files returned Err(e)
Exit1(e) ==
    /\ err' = e
    /\ exit_code' = 1
    /\ pc' = "exited"

\* the directory flag not consulted
ExpandsAlways(filename) == IsDir(filename)

\* line 63: the path is expanded
Expands(filename) == IsDir(filename) /\ ~args.directory

\* lines 63-71, read_dir fails: the header is out already
ReadDirFails ==
    /\ pc = "list_files"
    /\ i <= Len(args.files)
    /\ Expands(args.files[i])
    /\ out' = Append(out, HeaderLine(i, args.files[i]))
    /\ Exit1(Error("DirectoryUnreadable", Last(args.files[i])))
    /\ entries' = <<>>
    /\ j' = 1
    /\ UNCHANGED <<args, cwd, dirfs, i, mode_in, mode_out>>

\* the entries read_dir finds in the directory a top-level path resolves to
DirEntries(filename) == {n \in Names : DirMap(Last(filename))[n].kind # "none"}

\* lines 63-71: the header, then the entries read_dir gives, in any order,
\* sorted.  An entry read_dir fails on is dropped (line 68), as if the
\* directory did not hold it.
ReadDir ==
    /\ pc = "list_files"
    /\ i <= Len(args.files)
    /\ Expands(args.files[i])
    /\ out' = Append(out, HeaderLine(i, args.files[i]))
    /\ \E raw \in SeqsOver(DirEntries(args.files[i])) :
        /\ entries' = SortUnstable([k \in 1..Len(raw) |-> <<Last(args.files[i]), raw[k]>>])
        /\ j' = 1
        /\ IF raw = <<>>
           THEN i' = i + 1 /\ pc' = "list_files"
           ELSE i' = i /\ pc' = "entries"
    /\ UNCHANGED <<args, cwd, dirfs, err, exit_code, mode_in, mode_out>>

\* lines 73-75: file_info on the next entry of the directory
Entry ==
    /\ pc = "entries"
    /\ j <= Len(entries)
    /\ \E fault \in Faults :
        LET r == file_info(i, entries[j], fault)
        IN  /\ out' = out \o r.lines
            /\ IF r.err # NoErr
               THEN Exit1(r.err) /\ UNCHANGED <<i, j>>
               ELSE /\ j' = j + 1
                    /\ IF j = Len(entries)
                       THEN i' = i + 1 /\ pc' = "list_files"
                       ELSE i' = i /\ pc' = "entries"
                    /\ UNCHANGED <<err, exit_code>>
    /\ UNCHANGED <<args, cwd, dirfs, entries, mode_in, mode_out>>

\* line 77: file_info on the path itself
Single ==
    /\ pc = "list_files"
    /\ i <= Len(args.files)
    /\ ~Expands(args.files[i])
    /\ \E fault \in Faults :
        LET r == file_info(i, args.files[i], fault)
        IN  /\ out' = out \o r.lines
            /\ IF r.err # NoErr
               THEN Exit1(r.err) /\ UNCHANGED i
               ELSE i' = i + 1 /\ UNCHANGED <<pc, err, exit_code>>
    /\ UNCHANGED <<args, cwd, dirfs, entries, j, mode_in, mode_out>>

\* line 81 and the end of main: Ok(()), exit status 0
Exit0 ==
    /\ pc = "list_files"
    /\ i > Len(args.files)
    /\ pc' = "exited"
    /\ UNCHANGED <<args, cwd, dirfs, i, entries, j, out, err, exit_code, mode_in, mode_out>>

Next == Main \/ ReadDirFails \/ ReadDir \/ Entry \/ Single \/ Exit0

Spec == Init /\ [][Next]_vars

(***************************************************************************)
(* get_mode_str on its own                                                 *)
(***************************************************************************)
\* the bits above the permission bits: none, sticky, setgid, setuid, and the
\* file types directory (0o040000), regular (0o100000), link (0o120000)
HighBits == {0, 1, 2, 4, 32, 64, 80}

Modes == {low + 512 * high : low \in 0..511, high \in HighBits}

InitMode ==
    /\ args = [files |-> <<>>, all |-> FALSE, directory |-> FALSE, long |-> TRUE,
               not_human_readable |-> FALSE]
    /\ cwd = [n \in TopNames |-> Node("dir", <<>>)]
    /\ dirfs = [n \in TopNames |-> Node("dir", <<>>)]
    /\ pc = "get_mode_str"
    /\ i = 1
    /\ entries = <<>>
    /\ j = 1
    /\ out = <<>>
    /\ err = NoErr
    /\ exit_code = 0
    /\ mode_in \in Modes
    /\ mode_out = <<>>

GetModeStr ==
    /\ pc = "get_mode_str"
    /\ mode_out = <<>>
    /\ mode_out' = get_mode_str(mode_in)
    /\ UNCHANGED <<args, cwd, dirfs, pc, i, entries, j, out, err, exit_code, mode_in>>

NextMode == GetModeStr

ModeSpec == InitMode /\ [][NextMode]_vars

(***************************************************************************)
(* Properties                                                              *)
(***************************************************************************)
Files == args.files

\* the positions of the lines printed for the top-level path at position k
LinesOf(k) == {p \in 1..Len(out) : out[p].idx = k}

\* the top-level path at position k was expanded: its header is out
Expanded(k) == \E p \in LinesOf(k) : out[p].kind = "header"

\* the names of the directory of position k that file_info has returned Ok for
Returned(k) ==
    IF k < i THEN DirEntries(Files[k])
    ELSE IF k = i THEN {Last(entries[m]) : m \in 1..(j - 1)}
    ELSE {}

\* the entry lines printed for name n of the directory of position k
EntryLines(k, n) ==
    {p \in LinesOf(k) : out[p].kind # "header" /\ Len(out[p].path) = 2 /\ out[p].name = n}

\* C1: of an expanded directory, a child that file_info has returned from has
\* exactly one line when all is set or its name does not start with '.', and
\* no line otherwise; the line carries the final component of its path.
C1_ChildFilter ==
    \A k \in 1..Len(Files) :
        Expanded(k) =>
            \A n \in Names :
                /\ Cardinality(EntryLines(k, n)) =
                       IF n \in Returned(k) /\ (args.all \/ n[1] # 46) THEN 1 ELSE 0
                /\ \A p \in EntryLines(k, n) : Last(out[p].path) = n

C1_Witness ==
    /\ pc = "exited"
    /\ exit_code = 0
    /\ ~args.all
    /\ \E k \in 1..Len(Files) :
        /\ Expanded(k)
        /\ DirEntries(Files[k]) = Names
        /\ Cardinality(EntryLines(k, <<97>>)) = 1
        /\ EntryLines(k, <<46, 104>>) = {}

\* C2: the top-level paths are processed in sorted order, the lines of one
\* path are contiguous and follow those of the paths before it, the header of
\* an expanded directory is the first of its lines, and the entries of one
\* directory are printed in increasing order of their paths and names.
C2_Ordering ==
    pc # "main" =>
        /\ \A k, m \in 1..Len(Files) :
               k < m => (Files[k] = Files[m] \/ PathLess(Files[k], Files[m]))
        /\ \A p, q \in 1..Len(out) :
               p < q =>
                   /\ out[p].idx <= out[q].idx
                   /\ out[q].kind = "header" => out[p].idx < out[q].idx
                   /\ (out[p].idx = out[q].idx /\ out[p].kind # "header") =>
                          /\ PathLess(out[p].path, out[q].path)
                          /\ BytesLess(out[p].name, out[q].name)

C2_Witness ==
    /\ pc = "exited"
    /\ Len(out) = 6
    /\ out[1].kind = "header"
    /\ out[4].kind = "header"
    /\ out[1].path # out[4].path
    /\ out[2].name = <<46, 104>>
    /\ out[3].name = <<97>>

\* C9: get_mode_str gives 9 characters; the character at position k is the
\* letter of "rwxrwxrwx" at k when bit 9 - k of the mode is set and '-' when
\* it is not, whatever the bits above the low 9 are.
C9_ModeStr ==
    mode_out # <<>> =>
        /\ Len(mode_out) = 9
        /\ \A k \in 1..9 :
               mode_out[k] =
                   IF (mode_in \div (2 ^ (9 - k))) % 2 = 1
                   THEN <<"r", "w", "x", "r", "w", "x", "r", "w", "x">>[k]
                   ELSE "-"

C9_Witness ==
    /\ mode_in = 16877
    /\ mode_out = <<"r", "w", "x", "r", "-", "x", "r", "-", "x">>

\* the top-level path at position k is a directory
TopIsDir(k) == cwd[Last(Files[k])].kind = "dir"

\* the name of the top-level path at position k starts with '.' and is
\* neither "." nor ".."
TopHiddenName(k) == Last(Files[k])[1] = 46 /\ Last(Files[k]) \notin {CurDir, ParentDir}

\* the lines printed for the top-level path at position k itself
OwnLines(k) == {p \in LinesOf(k) : out[p].kind # "header" /\ out[p].path = Files[k]}

\* C3 as stated: with directory set, every top-level directory of a run that
\* succeeded has exactly one line, its name with '/', whatever its name and
\* the other flags are.
C3_AsStated ==
    (pc = "exited" /\ exit_code = 0 /\ args.directory) =>
        \A k \in 1..Len(Files) :
            TopIsDir(k) =>
                /\ Cardinality(LinesOf(k)) = 1
                /\ \A p \in LinesOf(k) : out[p].name = Last(Files[k]) /\ out[p].suffix = "/"

\* C3 amended: with directory set, a top-level directory has no header and no
\* line of a child; once file_info has returned Ok for it, it has exactly one
\* line, its name with '/', unless all is unset and its name is hidden, and
\* then it has no line; before that, or when file_info fails on it, it has none.
C3_DirectoryOnly ==
    (pc # "main" /\ args.directory) =>
        \A k \in 1..Len(Files) :
            TopIsDir(k) =>
                /\ LinesOf(k) = OwnLines(k)
                /\ Cardinality(LinesOf(k)) =
                       IF k < i /\ (args.all \/ ~TopHiddenName(k)) THEN 1 ELSE 0
                /\ \A p \in LinesOf(k) : out[p].name = Last(Files[k]) /\ out[p].suffix = "/"

C3_Witness ==
    /\ pc = "exited"
    /\ exit_code = 0
    /\ args.directory
    /\ args.long
    /\ Len(Files) = 2
    /\ Files[1] # Files[2]
    /\ \A k \in 1..2 : cwd[Last(Files[k])].kind = "dir" /\ Cardinality(LinesOf(k)) = 1
    /\ \A p \in 1..Len(out) : out[p].suffix = "/" /\ out[p].kind = "long"

ErrKinds == {"DirectoryUnreadable", "NotAccessible", "LinkUnreadable"}

\* C4 as stated: the run exits 0 exactly when none of the three named fatal
\* conditions occurs.
C4_AsStated ==
    pc = "exited" => (exit_code = 0 <=> err.kind \notin ErrKinds)

\* a is a prefix of b
IsPrefix(a, b) == Len(a) <= Len(b) /\ \A p \in 1..Len(a) : a[p] = b[p]

\* C4 amended: the run exits 0 exactly when no fatal condition occurs, the
\* fatal conditions being the three named ones and a modification time that
\* cannot be read or is before the epoch (long format); a step never takes a
\* printed line back; the step on which the first fatal condition occurs ends
\* the run with a non-zero status, printing nothing for the failing entry
\* (for an unreadable directory, only its header), and nothing is resolved or
\* printed after the run has ended.
C4_FailFast ==
    /\ [](pc = "exited" =>
             /\ exit_code = 0 <=> err = NoErr
             /\ err.kind \in ErrKinds \cup {"Modified", "none"}
             /\ exit_code = 0 => i = Len(Files) + 1
             /\ exit_code # 0 => \A p \in 1..Len(out) : out[p].idx <= i)
    /\ [][/\ IsPrefix(out, out')
          /\ pc # "exited" => err = NoErr
          /\ err' # NoErr =>
                /\ pc' = "exited"
                /\ exit_code' # 0
                /\ i' = i /\ j' \in {1, j}
                /\ \/ out' = out
                   \/ /\ err'.kind = "DirectoryUnreadable"
                      /\ out' = Append(out, HeaderLine(i, Files[i]))
          /\ pc = "exited" => out' = out]_vars

C4_Witness ==
    /\ pc = "exited"
    /\ exit_code = 1
    /\ err.kind = "NotAccessible"
    /\ Len(Files) = 2
    /\ i = 1
    /\ j = 2
    /\ Len(out) = 2
    /\ Len(entries) = 2

\* C5: a requested path that does not exist never gets a line, the run does
\* not get past it and exits non-zero, and when file_info is called on it the
\* error is NotAccessible with its display name, also for a name that the
\* hidden-file filter would skip.
C5_MissingFile ==
    pc # "main" =>
        \A k \in 1..Len(Files) :
            cwd[Last(Files[k])].kind = "none" =>
                /\ LinesOf(k) = {}
                /\ i <= k
                /\ pc = "exited" =>
                       /\ exit_code # 0
                       /\ i = k => err = Error("NotAccessible", Last(Files[k]))

C5_Witness ==
    /\ pc = "exited"
    /\ ~args.all
    /\ i = 2
    /\ Len(Files) = 2
    /\ Files[2] = <<<<46, 104>>>>
    /\ cwd[<<46, 104>>].kind = "none"
    /\ err = Error("NotAccessible", <<46, 104>>)
    /\ exit_code = 1
    /\ Len(out) = 1

\* the node of the top-level path at position k is there
TopExists(k) == cwd[Last(Files[k])].kind # "none"

\* the top-level path at position k is handed to file_info, not expanded
TopSingle(k) == Follow(cwd, Last(Files[k])) # "dir" \/ args.directory

\* C6 as stated: with all unset, a top-level file or directory with a hidden
\* name has no line of any kind, whatever the directory flag is.
C6_AsStated ==
    (pc # "main" /\ ~args.all) =>
        \A k \in 1..Len(Files) :
            (TopHiddenName(k) /\ cwd[Last(Files[k])].kind \in {"file", "dir"}) =>
                LinesOf(k) = {}

\* C6 amended: with all unset, a top-level path with a hidden name that is
\* handed to file_info (it does not resolve to a directory, or directory is
\* set) has no line, and file_info returns Ok for it unless symlink_metadata
\* fails; a hidden directory with directory unset is expanded like any other:
\* its header is printed.  "." and ".." are not hidden: with directory set
\* each has its line once file_info has returned.
C6_HiddenTop ==
    (pc # "main" /\ ~args.all) =>
        \A k \in 1..Len(Files) :
            /\ (TopHiddenName(k) /\ TopExists(k) /\ TopSingle(k)) =>
                   /\ LinesOf(k) = {}
                   /\ (pc = "exited" /\ i = k) => err.kind = "NotAccessible"
            /\ (TopHiddenName(k) /\ ~TopSingle(k) /\ k < i) => Expanded(k)
            /\ (~TopHiddenName(k) /\ args.directory /\ k < i) =>
                   Cardinality(OwnLines(k)) = 1

C6_Witness ==
    /\ pc = "exited"
    /\ exit_code = 0
    /\ ~args.all
    /\ args.directory
    /\ Len(Files) = 2
    /\ Files[1] = <<ParentDir>>
    /\ Files[2] = <<<<46, 104>>>>
    /\ cwd[<<46, 104>>].kind = "dir"
    /\ Len(out) = 1
    /\ out[1].name = ParentDir

\* C7: a long line of a link has the glyph 'l', the size of the link itself
\* and the arrow with the target the link names, one hop, whatever the link
\* resolves to; a long line of anything else has no arrow.
C7_Symlink ==
    \A p \in 1..Len(out) :
        out[p].kind = "long" =>
            IF out[p].node.kind = "link"
            THEN /\ out[p].file_type = "l"
                 /\ out[p].size.whole = Digits(Len(out[p].node.link))
                 /\ out[p].target_file = <<out[p].node.link>>
            ELSE /\ out[p].target_file = <<>>
                 /\ out[p].file_type # "l"

\* a long line of a link that names a link that names a directory
C7_Witness ==
    \E p \in 1..Len(out) :
        /\ out[p].kind = "long"
        /\ out[p].node.kind = "link"
        /\ out[p].resolves = "dir"
        /\ out[p].node.link = <<46, 104>>
        /\ out[p].target_file = <<<<46, 104>>>>
        /\ out[p].file_type = "l"

\* C8 as stated: a printed entry has the suffix '/' exactly when its own
\* metadata, links not followed, is that of a directory.
C8_AsStated ==
    \A p \in 1..Len(out) :
        out[p].kind # "header" => (out[p].suffix = "/" <=> out[p].node.kind = "dir")

\* C10: with directory unset, a top-level link to a directory is expanded as
\* the directory it resolves to: once the run is past it, its header and the
\* lines of the entries of that directory are out, and it has no line of its
\* own; a top-level path has a line of its own only when it does not resolve
\* to a directory or directory is set.
C10_ExpandFollows ==
    pc # "main" =>
        \A k \in 1..Len(Files) :
            /\ (cwd[Last(Files[k])].kind = "link" /\ Follow(cwd, Last(Files[k])) = "dir"
                    /\ ~args.directory) =>
                   /\ OwnLines(k) = {}
                   /\ k < i =>
                          /\ Expanded(k)
                          /\ \A n \in DirEntries(Files[k]) :
                                 (args.all \/ n[1] # 46) => EntryLines(k, n) # {}
            /\ OwnLines(k) # {} => TopSingle(k)

C10_Witness ==
    /\ pc = "exited"
    /\ exit_code = 0
    /\ ~args.directory
    /\ Files = <<<<<<97>>>>>>
    /\ cwd[<<97>>] = Node("link", <<46, 104>>)
    /\ cwd[<<46, 104>>] = Node("link", CurDir)
    /\ Len(out) = 2
    /\ out[1].kind = "header"
    /\ out[2].path = <<<<97>>, <<97>>>>

====
